---- MODULE Spec2Model ----
(***************************************************************************)
(* Model of tuhi (bentiss/tuhi_old): the BlueZ object manager and device   *)
(* wrappers of tuhi/ble.py, and the Tuhi / TuhiDevice glue and the drawing *)
(* reconstruction of tuhi.py.                                              *)
(*                                                                         *)
(* All callbacks run on one GLib main loop, one at a time, so every        *)
(* handler is one atomic action; a signal emitted inside a handler runs    *)
(* its handlers synchronously inside the same action.                      *)
(*                                                                         *)
(* tuhi/wacom.py (the protocol driver) and tuhi/dbusserver.py are not part *)
(* of the sources at hand: the driver is modelled by its 'working' flag,   *)
(* its start calls and its 'done' signal, the DBus server by the calls it  *)
(* receives and its 'pairing-requested' signal. Tuhi connects its device   *)
(* handler to a manager signal named 'device-updated'; the manager of      *)
(* ble.py emits 'device-added' from _process_device, and that emission is  *)
(* what runs Tuhi._on_bluez_device_updated here.                           *)
(***************************************************************************)
EXTENDS Integers, Sequences, FiniteSets, TLC

\* ------------------------------------------------------------------ bounds
\* Connect calls that may be outstanding on one device proxy
MaxPending == 2
\* raw points of one drawing
MaxPoints == 3
\* strokes of one drawing
MaxStrokes == 2

\* --------------------------------------------------------- program constants
ORG_BLUEZ_GATTCHARACTERISTIC1 == "org.bluez.GattCharacteristic1"
ORG_BLUEZ_GATTSERVICE1 == "org.bluez.GattService1"
ORG_BLUEZ_DEVICE1 == "org.bluez.Device1"
ORG_BLUEZ_ADAPTER1 == "org.bluez.Adapter1"
\* 0x4755
WACOM_COMPANY_ID == 18261

\* Python's None and a present value v, for the optional numbers of a point
None == << >>
Some(v) == <<v>>

\* a call on a collaborator: its name, the BlueZDevice (index) or the
\* address it is made on
Call(name, dev, addr) == [call |-> name, dev |-> dev, addr |-> addr]

\* a handler run by the event loop, with its arguments
Event(name, dev, obj, flag) == [name |-> name, dev |-> dev, obj |-> obj, flag |-> flag]

\* a signal emitted by BlueZDevice i or by the manager about it
Signal(name, i) == <<name, i>>

\* d[k] = v on a Python dict
Put(d, k, v) == [x \in DOMAIN d \cup {k} |-> IF x = k THEN v ELSE d[x]]

\* ------------------------------------------------- the transport's objects
\* The DBus objects org.bluez may export: one adapter, the same pad seen
\* under two object paths (same hardware address), two services of devA;
\* svc1 holds chr1 (U1) and chr2 (U2), svc2 holds chr3 (U1 again: a UUID is
\* unique within its service only).
Objects == {"hci0", "devA", "devA2", "svc1", "svc2", "chr1", "chr2", "chr3"}

\* a device of another vendor, with an address of its own
ForeignDevice == "devB"

\* obj.get_interface(...): the one BlueZ interface each object carries
Interface(obj) ==
    CASE obj = "hci0" -> ORG_BLUEZ_ADAPTER1
      [] obj \in {"devA", "devA2", ForeignDevice} -> ORG_BLUEZ_DEVICE1
      [] obj \in {"svc1", "svc2"} -> ORG_BLUEZ_GATTSERVICE1
      [] OTHER -> ORG_BLUEZ_GATTCHARACTERISTIC1

\* cached property 'Device' of a GattService1
ServiceDevice(obj) == "devA"

\* cached property 'Service' of a GattCharacteristic1
CharacteristicService(obj) == IF obj = "chr3" THEN "svc2" ELSE "svc1"

\* cached property 'UUID' of a GattCharacteristic1
CharacteristicUUID(obj) == IF obj = "chr2" THEN "U2" ELSE "U1"

\* cached property 'Address' of a Device1
DeviceAddress(obj) == IF obj = ForeignDevice THEN "BB" ELSE "AA"

Addresses == {"AA", "BB"}

\* BlueZDevice.vendor_id: the first key of the cached 'ManufacturerData' of
\* a Device1; the foreign device advertises none (ble.py 100: 0)
DeviceVendor(obj) == IF obj = ForeignDevice THEN 0 ELSE WACOM_COMPANY_ID

\* lengths of the manufacturer-data payload a pad may advertise
MdLens == {0, 4, 6}

\* the payload lengths device object obj may advertise for the vendor, out
\* of Ms: a device of another vendor has no payload for it
Payloads(obj, Ms) == IF DeviceVendor(obj) = WACOM_COMPANY_ID THEN Ms ELSE {0}

\* om.get_objects(): the object manager's objects, in its (hash) order; the
\* order is a function of the set and is not sorted by dependency.
ObjectOrder ==
    <<"chr2", "svc1", "devA2", "chr3", "hci0", "devB", "chr1", "svc2", "devA">>
get_objects(objs) == SelectSeq(ObjectOrder, LAMBDA o : o \in objs)

VARIABLES
    started,      \* connect_to_bluez has run
    om,           \* objects held by the ObjectManager client (self._om)
    devices,      \* BlueZDeviceManager.devices: sequence of BlueZDevice
    proxy,        \* per BlueZDevice: its Device1 proxy (transport side)
    tuhi,         \* Tuhi.devices: dict address -> TuhiDevice
    added_emits,  \* 'device-added' emissions of the manager, per address
    everRemoved,  \* an object-removed event has been delivered
    event,        \* the handler the last step ran
    emitted,      \* signals emitted during the last step
    calls,        \* calls on collaborators made during the last step
    dstate,       \* where _on_drawing_received stands
    raw,          \* the raw strokes of the drawing read so far
    strokes,      \* d.strokes
    stroke,       \* stroke.points of the stroke being decoded
    last,         \* <<lastx, lasty, lastp>>
    published,    \* the record add_drawing received, << >> before
    callbacks,    \* BlueZCharacteristic._property_callbacks of one wrapper
    batch,        \* the property changes of the last g-properties-changed
    invoked,      \* the callbacks the last g-properties-changed ran
    raised        \* the last g-properties-changed handler raised

\* the manager and the sessions
bvars == <<started, om, devices, proxy, tuhi, added_emits, everRemoved,
           event, emitted, calls>>
\* the drawing being reconstructed
dvars == <<dstate, raw, strokes, stroke, last, published>>

\* one characteristic's notification router
rvars == <<callbacks, batch, invoked, raised>>

vars == <<bvars, dvars, rvars>>

\* ------------------------------------------------------------- BlueZDevice

\* BlueZCharacteristic(obj): a new wrapper object. Its identity 'id' differs
\* from that of the wrapper the device's map holds for the same UUID, if any
\* (a newly constructed Python object is none of the existing ones).
BlueZCharacteristic(obj, characteristics) ==
    LET uuid == CharacteristicUUID(obj)
    IN [obj |-> obj, uuid |-> uuid,
        id |-> IF uuid \in DOMAIN characteristics
               THEN 1 - characteristics[uuid].id ELSE 0]

\* a faulty variant: binds the new wrapper even when the UUID is present
AddCharacteristicAlways(characteristics, chrc) ==
    [u \in DOMAIN characteristics \cup {chrc.uuid} |->
        IF u = chrc.uuid THEN chrc ELSE characteristics[u]]

\* ble.py 151-157: skip a UUID already in self.characteristics, else bind it
AddCharacteristic(characteristics, chrc) ==
    IF chrc.uuid \in DOMAIN characteristics
    THEN characteristics
    ELSE [u \in DOMAIN characteristics \cup {chrc.uuid} |->
            IF u = chrc.uuid THEN chrc ELSE characteristics[u]]

RECURSIVE _resolve_gatt_characteristics(_, _, _, _)
_resolve_gatt_characteristics(characteristics, service_obj, objects, k) ==
    IF k > Len(objects) THEN characteristics
    ELSE LET obj == objects[k]
             next == IF Interface(obj) # ORG_BLUEZ_GATTCHARACTERISTIC1
                     THEN characteristics
                     ELSE IF CharacteristicService(obj) # service_obj
                     THEN characteristics
                     ELSE AddCharacteristic(characteristics,
                                            BlueZCharacteristic(obj, characteristics))
         IN _resolve_gatt_characteristics(next, service_obj, objects, k + 1)

\* a faulty variant: the service list is not reset before the pass
KeepGattServices(dev) == dev.gatt_services

\* ble.py 127: self.gatt_services = []
ResetGattServices(dev) == << >>

RECURSIVE ResolveLoop(_, _, _)
ResolveLoop(dev, objects, k) ==
    IF k > Len(objects) THEN dev
    ELSE LET obj == objects[k]
             next == IF Interface(obj) # ORG_BLUEZ_GATTSERVICE1 THEN dev
                     ELSE IF ServiceDevice(obj) # dev.objpath THEN dev
                     ELSE [dev EXCEPT
                            !.gatt_services = Append(@, obj),
                            !.characteristics =
                                _resolve_gatt_characteristics(@, obj, objects, 1)]
         IN ResolveLoop(next, objects, k + 1)

_resolve_gatt_services(dev, objects) ==
    ResolveLoop([dev EXCEPT !.gatt_services = ResetGattServices(dev)], objects, 1)

\* BlueZDevice.resolve(om)
resolve(dev, objs) ==
    _resolve_gatt_services(dev, get_objects(objs))

\* BlueZDevice.__init__ up to and including self.resolve(om)
BlueZDevice(objs, obj) ==
    resolve([objpath |-> obj,
             address |-> DeviceAddress(obj),
             vendor_id |-> DeviceVendor(obj),
             characteristics |-> << >>,
             gatt_services |-> << >>], objs)


\* --------------------------------------------- the synchronous call chains
\* A handler's effects are threaded through a record w of the mutable
\* objects it touches: devices, proxy, tuhi, added_emits, emitted, calls.

\* the protocol driver's 'working' property (WacomDevice, tuhi/wacom.py)
working(td) == td.running > 0

\* WacomDevice.start() / start_pairing(): one more sequence is running
DriverStart(w, a, call) ==
    [w EXCEPT !.tuhi[a].running = @ + 1,
              !.calls = Append(@, Call(call, w.tuhi[a].bluez, a))]

\* a faulty variant: no 'working' check before starting
OnConnectedUnguarded(w, a) ==
    IF ~w.tuhi[a].pairing
    THEN DriverStart(w, a, "start")
    ELSE [DriverStart(w, a, "start_pairing") EXCEPT !.tuhi[a].pairing = FALSE]

\* a faulty variant: the pairing flag is not cleared
OnConnectedKeepFlag(w, a) ==
    IF ~working(w.tuhi[a])
    THEN IF ~w.tuhi[a].pairing
         THEN DriverStart(w, a, "start")
         ELSE DriverStart(w, a, "start_pairing")
    ELSE w

\* a faulty variant: a 'connected' handled while the driver is working drops
\* the pairing flag
OnConnectedDropsFlag(w, a) ==
    IF ~working(w.tuhi[a])
    THEN IF ~w.tuhi[a].pairing
         THEN DriverStart(w, a, "start")
         ELSE [DriverStart(w, a, "start_pairing") EXCEPT !.tuhi[a].pairing = FALSE]
    ELSE [w EXCEPT !.tuhi[a].pairing = FALSE]

\* TuhiDevice._on_bluez_device_connected
_on_bluez_device_connected(w, a) ==
    IF ~working(w.tuhi[a])
    THEN IF ~w.tuhi[a].pairing
         THEN DriverStart(w, a, "start")
         ELSE [DriverStart(w, a, "start_pairing") EXCEPT !.tuhi[a].pairing = FALSE]
    ELSE w

\* the TuhiDevice objects whose handlers are connected to BlueZDevice i
\* (tuhi.py 90-91); one address owns at most one TuhiDevice
Listeners(w, i) == {a \in DOMAIN w.tuhi : w.tuhi[a].bluez = i}

\* self.emit('connected') on BlueZDevice i: runs the connected handlers
EmitConnected(w, i) ==
    LET w1 == [w EXCEPT !.emitted = Append(@, Signal("connected", i))]
    IN IF Listeners(w, i) = {} THEN w1
       ELSE LET a == CHOOSE x \in Listeners(w, i) : TRUE
            IN _on_bluez_device_connected(
                  [w1 EXCEPT !.calls =
                      Append(@, Call("_on_bluez_device_connected", i, a))], a)

\* self.emit('disconnected', self): TuhiDevice._on_bluez_device_disconnected
\* only logs
EmitDisconnected(w, i) ==
    [w EXCEPT !.emitted = Append(@, Signal("disconnected", i))]

\* a faulty variant: Connect is issued whatever the cached 'Connected'
ConnectDeviceAlways(w, i) ==
    [w EXCEPT !.proxy[i].pending = @ + 1,
              !.calls = Append(@, Call("Connect", i, w.devices[i].address))]

\* BlueZDevice.connect_device
connect_device(w, i) ==
    IF w.proxy[i].Connected
    THEN EmitConnected(w, i)
    ELSE [w EXCEPT !.proxy[i].pending = @ + 1,
                   !.calls = Append(@, Call("Connect", i, w.devices[i].address))]

\* BlueZDevice._on_connect_result: a failure is logged, nothing else
_on_connect_result(w, i, ok) ==
    [w EXCEPT !.proxy[i].pending = @ - 1]

\* a faulty variant: a disconnect is not signalled
OnPropertiesChangedSilent(w, i, value) ==
    LET w1 == [w EXCEPT !.proxy[i].Connected = value]
    IN IF value THEN EmitConnected(w1, i) ELSE w1

\* BlueZDevice._on_properties_changed with 'Connected' in the batch
_on_properties_changed(w, i, value) ==
    LET w1 == [w EXCEPT !.proxy[i].Connected = value]
    IN IF value THEN EmitConnected(w1, i) ELSE EmitDisconnected(w1, i)

\* TuhiDevice.retrieve_data
retrieve_data(w, a) == connect_device(w, w.tuhi[a].bluez)

\* TuhiDevice._on_pairing
_on_pairing(w, a) ==
    connect_device([w EXCEPT !.tuhi[a].pairing = TRUE], w.tuhi[a].bluez)

\* BlueZDevice.get_manufacturer_data(vendor): the payload's length
get_manufacturer_data_len(w, i) == w.proxy[i].mdlen

\* a faulty variant: any non-empty payload counts as pairing mode
PairingModeNonEmpty(w, a) == get_manufacturer_data_len(w, w.tuhi[a].bluez) > 0

\* TuhiDevice.pairingmode (the property's value)
pairingmode(w, a) == get_manufacturer_data_len(w, w.tuhi[a].bluez) = 4

\* a faulty variant: a session is constructed on every call
GetTuhiDeviceAlways(w, j) ==
    LET a == w.devices[j].address
    IN [w EXCEPT !.calls = Append(@, Call("create_device", j, a)),
                 !.tuhi = Put(@, a, [bluez |-> j, pairing |-> FALSE,
                                     running |-> 0,
                                     dbus_pairingmode |-> FALSE])]

\* Tuhi.get_tuhi_device for BlueZDevice j
get_tuhi_device(w, j) ==
    LET a == w.devices[j].address
    IN IF a \notin DOMAIN w.tuhi
       THEN [w EXCEPT !.calls = Append(@, Call("create_device", j, a)),
                      !.tuhi = Put(@, a, [bluez |-> j, pairing |-> FALSE,
                                          running |-> 0,
                                          dbus_pairingmode |-> FALSE])]
       ELSE w

\* Tuhi._on_bluez_device_updated(manager, bluez_device j)
_on_bluez_device_updated(w, j) ==
    IF w.devices[j].vendor_id # WACOM_COMPANY_ID THEN w
    ELSE LET a == w.devices[j].address
             w1 == get_tuhi_device(w, j)
             pm == pairingmode(w1, a)
             w2 == [w1 EXCEPT !.tuhi[a].dbus_pairingmode = pm]
         IN IF ~pm THEN retrieve_data(w2, a) ELSE w2

\* BlueZDeviceManager._process_device; c, m: the new proxy's cached
\* 'Connected' and the length of its manufacturer data
_process_device(w, objs, obj, c, m) ==
    LET dev == BlueZDevice(objs, obj)
        j == Len(w.devices) + 1
        \* ble.py 113-114: emitted before anything listens on the new device
        e == IF c THEN Append(w.emitted, Signal("connected", j)) ELSE w.emitted
        w1 == [w EXCEPT !.devices = Append(@, dev),
                        !.proxy = Append(@, [Connected |-> c, pending |-> 0,
                                             mdlen |-> m]),
                        !.emitted = Append(e, Signal("device-added", j)),
                        !.added_emits[dev.address] = @ + 1]
    IN _on_bluez_device_updated(w1, j)

\* BlueZDeviceManager._process_object: the world after it
_process_object(w, objs, obj, c, m) ==
    IF Interface(obj) = ORG_BLUEZ_ADAPTER1 THEN w
    ELSE IF Interface(obj) = ORG_BLUEZ_DEVICE1 THEN _process_device(w, objs, obj, c, m)
    ELSE w

\* a faulty variant: a new service asks for a resolve as well
NeedsResolveAlsoService(obj) ==
    Interface(obj) \in {ORG_BLUEZ_GATTCHARACTERISTIC1, ORG_BLUEZ_GATTSERVICE1}

\* BlueZDeviceManager._process_object: its return value
needs_resolve(obj) ==
    Interface(obj) \notin {ORG_BLUEZ_ADAPTER1, ORG_BLUEZ_DEVICE1}
    /\ Interface(obj) = ORG_BLUEZ_GATTCHARACTERISTIC1

\* for d in self.devices: d.resolve(om)
ResolveAll(w, objs) ==
    [w EXCEPT !.devices = [i \in DOMAIN w.devices |-> resolve(w.devices[i], objs)],
              !.calls = @ \o [i \in DOMAIN w.devices |->
                                Call("resolve", i, w.devices[i].address)]]

World == [devices |-> devices, proxy |-> proxy, tuhi |-> tuhi,
          added_emits |-> added_emits, emitted |-> << >>, calls |-> << >>]

\* commit the world a handler leaves behind
Commit(w) ==
    /\ devices' = w.devices
    /\ proxy' = w.proxy
    /\ tuhi' = w.tuhi
    /\ added_emits' = w.added_emits
    /\ emitted' = w.emitted
    /\ calls' = w.calls
    /\ UNCHANGED <<dvars, rvars>>

\* the bounds of the model hold in w
InBounds(w) ==
    \A i \in DOMAIN w.proxy : w.proxy[i].pending <= MaxPending

\* ---------------------------------------------------------------- actions

Init ==
    /\ started = FALSE
    /\ om = {}
    /\ devices = << >>
    /\ proxy = << >>
    /\ tuhi = << >>
    /\ added_emits = [a \in Addresses |-> 0]
    /\ everRemoved = FALSE
    /\ event = Event("init", 0, "", FALSE)
    /\ emitted = << >>
    /\ calls = << >>
    /\ dstate = "idle"
    /\ raw = << >>
    /\ strokes = << >>
    /\ stroke = << >>
    /\ last = <<None, None, None>>
    /\ published = << >>
    /\ callbacks = << >>
    /\ batch = << >>
    /\ invoked = << >>
    /\ raised = FALSE

RECURSIVE ProcessAll(_, _, _, _, _)
ProcessAll(w, objs, objects, k, f) ==
    IF k > Len(objects) THEN w
    ELSE LET obj == objects[k]
             c == IF obj \in DOMAIN f THEN f[obj][1] ELSE FALSE
             m == IF obj \in DOMAIN f THEN f[obj][2] ELSE 0
         IN ProcessAll(_process_object(w, objs, obj, c, m), objs, objects, k + 1, f)

\* BlueZDeviceManager.connect_to_bluez: the objects BlueZ exports at that
\* moment (a subset of U) are processed in get_objects() order; each device
\* proxy starts with a cached 'Connected' in Cs and manufacturer data of a
\* length in Ms
ConnectToBluez(U, Cs, Ms) ==
    /\ ~started
    /\ \E objs \in SUBSET U :
         LET devs == {o \in objs : Interface(o) = ORG_BLUEZ_DEVICE1}
         IN \E f \in [devs -> Cs \X Ms] :
              LET w == ProcessAll(World, objs, get_objects(objs), 1, f)
              IN /\ \A o \in devs : f[o][2] \in Payloads(o, Ms)
                 /\ InBounds(w)
                 /\ om' = objs
                 /\ Commit(w)
    /\ started' = TRUE
    /\ event' = Event("connect_to_bluez", 0, "", FALSE)
    /\ UNCHANGED everRemoved

\* BlueZDeviceManager._on_om_object_added, for an object of U; the
\* transport exports a device object path once (a removed device does not
\* come back)
ObjectAdded(U, Cs, Ms) ==
    /\ started
    /\ \E obj \in U \ (om \cup {devices[i].objpath : i \in DOMAIN devices}) :
       \E c \in Cs, m \in Ms :
         LET objs == om \cup {obj}
             w1 == _process_object(World, objs, obj, c, m)
             w2 == IF needs_resolve(obj) THEN ResolveAll(w1, objs) ELSE w1
         IN /\ Interface(obj) # ORG_BLUEZ_DEVICE1
                  => (c = CHOOSE x \in Cs : TRUE) /\ (m = CHOOSE x \in Ms : TRUE)
            /\ Interface(obj) = ORG_BLUEZ_DEVICE1 => m \in Payloads(obj, Ms)
            /\ InBounds(w2)
            /\ om' = objs
            /\ Commit(w2)
            /\ event' = Event("object-added", 0, obj, FALSE)
    /\ UNCHANGED <<started, everRemoved>>

\* BlueZDeviceManager._on_om_object_removed: logs only
ObjectRemoved ==
    /\ started
    /\ \E obj \in om :
         /\ om' = om \ {obj}
         /\ event' = Event("object-removed", 0, obj, FALSE)
    /\ everRemoved' = TRUE
    /\ Commit(World)
    /\ UNCHANGED started

\* a call of BlueZDevice.resolve(om) on a known device
Resolve ==
    \E i \in DOMAIN devices :
        LET w == [World EXCEPT !.devices[i] = resolve(@, om)]
        IN /\ InBounds(w)
           /\ Commit(w)
           /\ event' = Event("resolve", i, "", FALSE)
           /\ UNCHANGED <<started, om, everRemoved>>

\* the proxy of BlueZDevice i still receives the transport's signals
Live(i) == devices[i].objpath \in om

\* g-properties-changed with Connected = value on device i's proxy
PropertiesChanged ==
    \E i \in DOMAIN devices : \E value \in BOOLEAN :
        /\ Live(i)
        /\ proxy[i].Connected # value
        /\ Commit(_on_properties_changed(World, i, value))
        /\ event' = Event("properties-changed", i, "", value)
        /\ UNCHANGED <<started, om, everRemoved>>

\* the reply to an outstanding Connect call on device i
ConnectResult ==
    \E i \in DOMAIN devices : \E ok \in BOOLEAN :
        /\ proxy[i].pending > 0
        /\ ok = proxy[i].Connected
        /\ LET w == _on_connect_result(World, i, ok)
           IN InBounds(w) /\ Commit(w)
        /\ event' = Event("connect-result", i, "", ok)
        /\ UNCHANGED <<started, om, everRemoved>>

\* the DBus device of address a emits 'pairing-requested'
PairingRequested ==
    \E a \in DOMAIN tuhi :
        /\ LET w == _on_pairing(World, a)
           IN InBounds(w) /\ Commit(w)
        /\ event' = Event("pairing-requested", tuhi[a].bluez, a, FALSE)
        /\ UNCHANGED <<started, om, everRemoved>>

\* the manager announces known device j again ('device-updated'), its
\* manufacturer data now m bytes long
DeviceUpdated(Ms) ==
    \E j \in DOMAIN devices : \E m \in Payloads(devices[j].objpath, Ms) :
        /\ Live(j)
        /\ LET w == _on_bluez_device_updated([World EXCEPT !.proxy[j].mdlen = m], j)
           IN InBounds(w) /\ Commit(w)
        /\ event' = Event("device-updated", j, "", FALSE)
        /\ UNCHANGED <<started, om, everRemoved>>

\* a faulty variant: the end of a sequence requests nothing
OnFetchingFinishedNoop(w, a) == w

\* TuhiDevice._on_fetching_finished, run by the driver's 'done' signal
_on_fetching_finished(w, a) ==
    [w EXCEPT !.calls = Append(@, Call("disconnect_device", w.tuhi[a].bluez, a))]

\* the protocol driver of address a finishes a sequence and emits 'done'
Done ==
    \E a \in DOMAIN tuhi :
        /\ working(tuhi[a])
        /\ Commit(_on_fetching_finished([World EXCEPT !.tuhi[a].running = @ - 1], a))
        /\ event' = Event("done", tuhi[a].bluez, a, FALSE)
        /\ UNCHANGED <<started, om, everRemoved>>

\* The manager in a transport that exports every kind of object; no
\* connection is established and nothing is requested over DBus.
Next ==
    \/ ConnectToBluez(Objects, {FALSE}, {6})
    \/ ObjectAdded(Objects, {FALSE}, {6})
    \/ ObjectRemoved
    \/ Resolve

Spec == Init /\ [][Next]_vars

\* The sessions of the pad: the transport exports its device objects only.
DeviceObjects == {o \in Objects : Interface(o) = ORG_BLUEZ_DEVICE1}
SessionMdLens == MdLens

\* ------------------------------------------------ drawing reconstruction
\* TuhiDevice._on_drawing_received, one step per loop iteration. A raw point
\* is <<type, x, y, p>> with x, y, p optional numbers.

ABSOLUTE == "ABSOLUTE"
RELATIVE == "RELATIVE"

\* the raw points a stroke may hold: absolute points report positions,
\* relative points report deltas; every channel may be absent
AbsolutePoints ==
    {<<ABSOLUTE, x, y, p>> : x \in {None, Some(10)}, y \in {None, Some(20)},
                             p \in {None, Some(5)}}
RelativePoints ==
    {<<RELATIVE, x, y, p>> : x \in {None, Some(3)}, y \in {None, Some(-2), Some(5)},
                             p \in {None, Some(0)}}
RawPoints == AbsolutePoints \cup RelativePoints

\* a faulty variant: a relative value without a last value counts from 0
DecodeChannelFromZero(type, v, lastv) ==
    IF v = None THEN [error |-> FALSE, v |-> None]
    ELSE IF type = RELATIVE
         THEN IF lastv = None THEN [error |-> FALSE, v |-> v]
              ELSE [error |-> FALSE, v |-> Some(v[1] + lastv[1])]
         ELSE [error |-> FALSE, v |-> v]

\* tuhi.py 131-134 (135-138, 139-142) for one channel. v: the raw value,
\* lastv: the running last value. 'v += lastv' with lastv None raises
\* TypeError.
DecodeChannel(type, v, lastv) ==
    IF v = None THEN [error |-> FALSE, v |-> None]
    ELSE IF type = RELATIVE
         THEN IF lastv = None THEN [error |-> TRUE, v |-> None]
              ELSE [error |-> FALSE, v |-> Some(v[1] + lastv[1])]
         ELSE [error |-> FALSE, v |-> v]

\* tuhi.py 144: lastx, lasty, lastp = x, y, p
AssignLast(x, y, p, lst) == <<x, y, p>>

\* tuhi.py 145-147: the Point object
Point(lst) == [position |-> <<lst[1], lst[2]>>, pressure |-> lst[3]]

\* TuhiDrawing.Point.to_dict: 'toffset' is never set; a key is kept when its
\* value is not None
PointToDict(point) ==
    [key \in {"position"} \cup (IF point.pressure # None THEN {"pressure"} ELSE {})
        |-> IF key = "position" THEN point.position ELSE point.pressure]

\* TuhiDrawing.Stroke.to_dict
StrokeToDict(points) == [points |-> [k \in DOMAIN points |-> PointToDict(points[k])]]

\* TuhiDrawing.json: the 'strokes' member of the record
Json(ss) == [k \in DOMAIN ss |-> StrokeToDict(ss[k])]

\* raw points read so far
RawCount == IF raw = << >> THEN 0
            ELSE LET n[k \in 0 .. Len(raw)] ==
                        IF k = 0 THEN 0 ELSE n[k - 1] + Len(raw[k])
                 IN n[Len(raw)]

\* the driver emits 'drawing': tuhi.py 125-126
DrawingReceived ==
    /\ dstate = "idle"
    /\ dstate' = "drawing"
    /\ strokes' = << >>
    /\ raw' = << >>
    /\ UNCHANGED <<stroke, last, published, bvars, rvars>>

\* a faulty variant: the last values run on into the next stroke
KeepLast(lst) == lst

\* tuhi.py 129: lastx, lasty, lastp = None, None, None
ResetLast(lst) == <<None, None, None>>

\* tuhi.py 127-129: the next stroke of the drawing
BeginStroke ==
    /\ dstate = "drawing"
    /\ Len(raw) < MaxStrokes
    /\ dstate' = "stroke"
    /\ raw' = Append(raw, << >>)
    /\ stroke' = << >>
    /\ last' = ResetLast(last)
    /\ UNCHANGED <<strokes, published, bvars, rvars>>

\* tuhi.py 130-148: the next point of the stroke
DecodePoint ==
    /\ dstate = "stroke"
    /\ RawCount < MaxPoints
    /\ \E pt \in RawPoints :
         LET x == DecodeChannel(pt[1], pt[2], last[1])
             y == DecodeChannel(pt[1], pt[3], last[2])
             p == DecodeChannel(pt[1], pt[4], last[3])
             lst == AssignLast(x.v, y.v, p.v, last)
         IN /\ raw' = [raw EXCEPT ![Len(raw)] = Append(@, pt)]
            /\ IF x.error \/ y.error \/ p.error
               THEN /\ dstate' = "error"
                    /\ UNCHANGED <<stroke, last>>
               ELSE /\ dstate' = "stroke"
                    /\ last' = lst
                    /\ stroke' = Append(stroke, Point(lst))
    /\ UNCHANGED <<strokes, published, bvars, rvars>>

\* a faulty variant: the new stroke is put in front
PrependStroke(ss, st) == <<st>> \o ss

\* list.append of tuhi.py 149
AppendStroke(ss, st) == Append(ss, st)

\* tuhi.py 149: d.strokes.append(stroke)
EndStroke ==
    /\ dstate = "stroke"
    /\ dstate' = "drawing"
    /\ strokes' = AppendStroke(strokes, stroke)
    /\ UNCHANGED <<raw, stroke, last, published, bvars, rvars>>

\* tuhi.py 151: self._tuhi_dbus_device.add_drawing(d)
AddDrawing ==
    /\ dstate = "drawing"
    /\ dstate' = "published"
    /\ published' = Json(strokes)
    /\ UNCHANGED <<raw, strokes, stroke, last, bvars, rvars>>

\* tuhi.py 130-148 as a whole: the points of one raw stroke from the k-th on;
\* lst: the running last values, acc: stroke.points so far
RECURSIVE DecodeStroke(_, _, _, _)
DecodeStroke(points, k, lst, acc) ==
    IF k > Len(points) THEN [error |-> FALSE, points |-> acc]
    ELSE LET pt == points[k]
             x == DecodeChannel(pt[1], pt[2], lst[1])
             y == DecodeChannel(pt[1], pt[3], lst[2])
             p == DecodeChannel(pt[1], pt[4], lst[3])
             l == AssignLast(x.v, y.v, p.v, lst)
         IN IF x.error \/ y.error \/ p.error
            THEN [error |-> TRUE, points |-> acc]
            ELSE DecodeStroke(points, k + 1, l, Append(acc, Point(l)))

\* tuhi.py 127-149 as a whole: the raw strokes from the s-th on
RECURSIVE DecodeStrokes(_, _, _)
DecodeStrokes(drawing, s, acc) ==
    IF s > Len(drawing) THEN [error |-> FALSE, strokes |-> acc]
    ELSE LET r == DecodeStroke(drawing[s], 1, <<None, None, None>>, << >>)
         IN IF r.error THEN [error |-> TRUE, strokes |-> acc]
            ELSE DecodeStrokes(drawing, s + 1, AppendStroke(acc, r.points))

\* TuhiDevice._on_drawing_received in one piece: the strokes decoded, and
\* whether an addition raised before add_drawing was reached
_on_drawing_received(drawing) == DecodeStrokes(drawing, 1, << >>)

\* the drawings the driver of a session hands over: one that decodes and one
\* whose second point is relative to a pressure the first did not report
EmittedDrawings ==
    {<<<<<<ABSOLUTE, Some(10), Some(20), Some(5)>>,
         <<RELATIVE, Some(3), Some(-2), Some(0)>>>>>>,
     <<<<<<ABSOLUTE, Some(10), Some(20), None>>,
         <<RELATIVE, Some(3), Some(-2), Some(0)>>>>>>}

\* the protocol driver of address a, working, emits 'drawing': the whole of
\* TuhiDevice._on_drawing_received runs
DrawingEmitted ==
    \E a \in DOMAIN tuhi : \E d \in EmittedDrawings :
        LET r == _on_drawing_received(d)
        IN /\ working(tuhi[a])
           /\ raw' = d
           /\ strokes' = r.strokes
           /\ stroke' = << >>
           /\ last' = <<None, None, None>>
           /\ dstate' = IF r.error THEN "error" ELSE "published"
           /\ published' = IF r.error THEN published ELSE Json(r.strokes)
           /\ calls' = IF r.error THEN << >>
                       ELSE <<Call("add_drawing", tuhi[a].bluez, a)>>
           /\ emitted' = << >>
           /\ event' = Event("drawing", tuhi[a].bluez, a, FALSE)
           /\ UNCHANGED <<started, om, devices, proxy, tuhi, added_emits,
                          everRemoved, rvars>>

NextDraw ==
    \/ DrawingReceived
    \/ BeginStroke
    \/ DecodePoint
    \/ EndStroke
    \/ AddDrawing

SpecDraw == Init /\ [][NextDraw]_vars

\* The sessions of the pad, with the drawings their drivers hand over (each
\* reconstructed in one handler run).
NextSession ==
    \/ ConnectToBluez(DeviceObjects, BOOLEAN, SessionMdLens)
    \/ ObjectAdded(DeviceObjects, BOOLEAN, SessionMdLens)
    \/ ObjectRemoved
    \/ PropertiesChanged
    \/ ConnectResult
    \/ PairingRequested
    \/ DeviceUpdated(SessionMdLens)
    \/ DrawingEmitted
    \/ Done

SpecSession == Init /\ [][NextSession]_vars

\* The orchestrator among devices of the vendor and of another vendor: the
\* announcements of devices, the connections and the pairing requests.
VendorObjects == DeviceObjects \cup {ForeignDevice}

NextVendor ==
    \/ ConnectToBluez(VendorObjects, BOOLEAN, MdLens)
    \/ ObjectAdded(VendorObjects, BOOLEAN, MdLens)
    \/ PropertiesChanged
    \/ ConnectResult
    \/ PairingRequested
    \/ DeviceUpdated(MdLens)

SpecVendor == Init /\ [][NextVendor]_vars

\* ------------------------------------------------- notification router
\* One BlueZCharacteristic: connect_property and the g-properties-changed
\* handler. The callbacks are the protocol driver's; a callback returns
\* normally.

\* property names of a GattCharacteristic1, in properties.items() order
PropOrder == <<"Value", "Notifying", "Flags">>
PropNames == {PropOrder[k] : k \in DOMAIN PropOrder}
\* the values a changed property may carry
PropValues == {0, 1}
\* the callback functions that may be registered
Callbacks == {"cb1", "cb2"}

\* a faulty variant: the first registration of a name is kept
ConnectPropertyKeepFirst(cbs, propname, callback) ==
    IF propname \in DOMAIN cbs THEN cbs ELSE Put(cbs, propname, callback)

\* BlueZCharacteristic.connect_property
connect_property(cbs, propname, callback) == Put(cbs, propname, callback)

\* ble.py 62-66: the loop over the batch from its k-th name on; r holds the
\* calls made so far. A name without a callback raises KeyError at the
\* lookup, which 'except KeyError: pass' swallows.
RECURSIVE Dispatch(_, _, _, _)
Dispatch(cbs, properties, k, r) ==
    IF k > Len(PropOrder) THEN r
    ELSE LET name == PropOrder[k]
         IN IF name \notin DOMAIN properties THEN Dispatch(cbs, properties, k + 1, r)
            ELSE IF name \in DOMAIN cbs
                 THEN Dispatch(cbs, properties, k + 1,
                               [r EXCEPT !.invoked =
                                   Append(@, [callback |-> cbs[name], name |-> name,
                                              value |-> properties[name]])])
                 ELSE Dispatch(cbs, properties, k + 1, r)

\* BlueZCharacteristic._on_properties_changed
chrc_on_properties_changed(cbs, properties) ==
    Dispatch(cbs, properties, 1, [invoked |-> << >>, raised |-> FALSE])

\* a caller registers callback cb for property name n
ConnectProperty ==
    \E n \in PropNames, cb \in Callbacks :
        /\ callbacks' = connect_property(callbacks, n, cb)
        /\ event' = Event("connect_property", 0, <<n, cb>>, FALSE)
        /\ batch' = << >>
        /\ invoked' = << >>
        /\ raised' = FALSE
        /\ UNCHANGED <<started, om, devices, proxy, tuhi, added_emits, everRemoved,
                       emitted, calls, dvars>>

\* the transport reports a batch of changed properties of the characteristic
ChrcPropertiesChanged ==
    \E names \in SUBSET PropNames : \E properties \in [names -> PropValues] :
        LET r == chrc_on_properties_changed(callbacks, properties)
        IN /\ batch' = properties
           /\ invoked' = r.invoked
           /\ raised' = r.raised
           /\ event' = Event("chrc-properties-changed", 0, "", FALSE)
           /\ UNCHANGED <<callbacks, started, om, devices, proxy, tuhi, added_emits,
                          everRemoved, emitted, calls, dvars>>

NextRouter ==
    \/ ConnectProperty
    \/ ChrcPropertiesChanged

SpecRouter == Init /\ [][NextRouter]_vars

\* ------------------------------------------------------ topology claims

\* every object that belongs to the pad at path devA
PadObjects == {"devA", "svc1", "svc2", "chr1", "chr2", "chr3"}

\* a complete object set: the device, its service svc1, svc1's characteristics
FullSet == {"devA", "svc1", "chr1", "chr2"}

\* a characteristics map as UUID -> DBus object
Bound(characteristics) ==
    [u \in DOMAIN characteristics |-> characteristics[u].obj]

\* C1: once every object of the complete set FullSet has been delivered
\* (initial enumeration plus object-added, in any order, nothing removed,
\* nothing else of the pad exported), the device's map is the one the
\* enumeration of the whole set gives; in particular it holds every UUID of
\* the set.
C1_OrderIndependence ==
    (~everRemoved /\ om \cap PadObjects = FullSet) =>
        \A i \in DOMAIN devices :
            devices[i].objpath = "devA" =>
                /\ DOMAIN devices[i].characteristics = {"U1", "U2"}
                /\ Bound(devices[i].characteristics)
                      = Bound(BlueZDevice(FullSet, "devA").characteristics)

\* device i went through resolve() during the last step
ResolvedByLastStep(i) ==
    \/ event.name = "resolve" /\ event.dev = i
    \/ event.name = "connect_to_bluez"
    \/ event.name = "object-added"
         /\ \/ Interface(event.obj) = ORG_BLUEZ_GATTCHARACTERISTIC1
            \/ Interface(event.obj) = ORG_BLUEZ_DEVICE1 /\ i = Len(devices)

NoDuplicates(seq) == \A j, k \in DOMAIN seq : seq[j] = seq[k] => j = k

\* C2: a resolve() of a device right after a resolve() of the same device,
\* the object set unchanged, leaves its characteristics map (keys and bound
\* objects) and its service list as they were, the service list without
\* duplicates.
C2_IdempotentResolve ==
    [][\A i \in DOMAIN devices :
          (ResolvedByLastStep(i) /\ event'.name = "resolve" /\ event'.dev = i)
          => /\ devices'[i].characteristics = devices[i].characteristics
             /\ devices'[i].gatt_services = devices[i].gatt_services
             /\ NoDuplicates(devices'[i].gatt_services)]_vars

\* a second resolve in a row has run on a device with services and a map
C2_Witness ==
    /\ event.name = "resolve"
    /\ Len(devices[event.dev].gatt_services) = 2
    /\ DOMAIN devices[event.dev].characteristics = {"U1", "U2"}

\* C3: whatever the step (object added, object removed, resolve), every UUID
\* of a device's map stays in it, bound to the same Characteristic object.
C3_MonotonicMap ==
    [][\A i \in DOMAIN devices :
          /\ i \in DOMAIN devices'
          /\ \A u \in DOMAIN devices[i].characteristics :
                /\ u \in DOMAIN devices'[i].characteristics
                /\ devices'[i].characteristics[u] = devices[i].characteristics[u]]_vars

\* a resolve has run after the object bound to a UUID was removed, and after
\* another characteristic of the same UUID is known: the binding stayed
C3_Witness ==
    /\ event.name = "resolve"
    /\ "U1" \in DOMAIN devices[event.dev].characteristics
    /\ devices[event.dev].characteristics["U1"].obj \notin om
    /\ \E c \in om : /\ Interface(c) = ORG_BLUEZ_GATTCHARACTERISTIC1
                     /\ CharacteristicUUID(c) = "U1"
                     /\ CharacteristicService(c) \in om

\* C4: for every hardware address delivered, the manager holds one device of
\* that address, one session exists for it and 'device-added' was emitted
\* once for it.
C4_Deduplication ==
    \A a \in Addresses :
        (\E i \in DOMAIN devices : devices[i].address = a) =>
            /\ Cardinality({i \in DOMAIN devices : devices[i].address = a}) = 1
            /\ a \in DOMAIN tuhi
            /\ added_emits[a] = 1

\* how often the last step made call 'name' on BlueZDevice i
CallsOn(seq, name, i) ==
    Cardinality({k \in DOMAIN seq : seq[k].call = name /\ seq[k].dev = i})

\* C17: an object-added of a characteristic calls resolve once on every
\* device the manager knows, each ending as resolve over the new object set
\* leaves it; an object-added of an adapter, a device or a service calls
\* resolve on no known device and leaves every known device as it was.
C17_ReResolveOnCharacteristic ==
    [][event'.name = "object-added" =>
          IF Interface(event'.obj) = ORG_BLUEZ_GATTCHARACTERISTIC1
          THEN /\ DOMAIN devices' = DOMAIN devices
               /\ \A i \in DOMAIN devices :
                     /\ CallsOn(calls', "resolve", i) = 1
                     /\ devices'[i] = resolve(devices[i], om')
          ELSE \A i \in DOMAIN devices :
                     /\ CallsOn(calls', "resolve", i) = 0
                     /\ devices'[i] = devices[i]]_vars

\* a characteristic was added while the manager knew two devices: both were
\* resolved again, and the owner's map now holds the characteristic
C17_Witness ==
    /\ event.name = "object-added"
    /\ Interface(event.obj) = ORG_BLUEZ_GATTCHARACTERISTIC1
    /\ Len(devices) = 2
    /\ CallsOn(calls, "resolve", 1) = 1 /\ CallsOn(calls, "resolve", 2) = 1
    /\ \E i \in DOMAIN devices : \E u \in DOMAIN devices[i].characteristics :
          devices[i].characteristics[u].obj = event.obj

\* ------------------------------------------------------- session claims

\* The session state of BlueZDevice i; the code keeps none, it is read off
\* the proxy: the cached 'Connected' and the Connect calls not yet answered.
SessionState(i) ==
    IF proxy[i].Connected THEN "Connected"
    ELSE IF proxy[i].pending > 0 THEN "Connecting" ELSE "Disconnected"

Range(seq) == {seq[k] : k \in DOMAIN seq}

\* how often the last step made call 'name' for address a
Count(seq, name, a) ==
    Cardinality({k \in DOMAIN seq : seq[k].call = name /\ seq[k].addr = a})

\* C8: (1) a session that is Connecting after one connect_device and gets the
\* connection-established event is Connected and 'connected' was emitted;
\* (2) if instead the Connect fails, it is Disconnected again, no 'connected'
\* was emitted and no Connect was issued again; (3) a Connected session (no
\* Connect reply outstanding) that gets the disconnect event is Disconnected
\* and 'disconnected' was emitted, whatever the pairing flag.
C8_SessionStateMachine ==
    [][\A i \in DOMAIN devices :
          /\ (/\ SessionState(i) = "Connecting"
              /\ event' = Event("properties-changed", i, "", TRUE))
             => /\ SessionState(i)' = "Connected"
                /\ Signal("connected", i) \in Range(emitted')
          /\ (/\ SessionState(i) = "Connecting" /\ proxy[i].pending = 1
              /\ event' = Event("connect-result", i, "", FALSE))
             => /\ SessionState(i)' = "Disconnected"
                /\ emitted' = << >>
                /\ calls' = << >>
          /\ (/\ SessionState(i) = "Connected"
              /\ event' = Event("properties-changed", i, "", FALSE))
             => /\ SessionState(i)' # "Connected"
                /\ proxy[i].pending = 0 => SessionState(i)' = "Disconnected"
                /\ emitted' = <<Signal("disconnected", i)>>
                /\ calls' = << >>
                /\ tuhi' = tuhi]_vars

\* a Connected session whose pairing flag is set has just been disconnected
C8_Witness ==
    /\ event.name = "properties-changed" /\ ~event.flag
    /\ SessionState(event.dev) = "Disconnected"
    /\ emitted = <<Signal("disconnected", event.dev)>>
    /\ \E a \in DOMAIN tuhi : tuhi[a].bluez = event.dev /\ tuhi[a].pairing

\* the driver of address a is working when the step starts
PreWorking(a) == a \in DOMAIN tuhi /\ working(tuhi[a])

\* the pairing flag of address a at the moment the step's 'connected'
\* handler runs
FlagAtHandling(a) ==
    \/ a \in DOMAIN tuhi /\ tuhi[a].pairing
    \/ event'.name = "pairing-requested" /\ event'.obj = a

\* the step ran the 'connected' handler of address a
Handled(a) == Count(calls', "_on_bluez_device_connected", a) > 0

\* the step started exactly one sequence for a, chosen by the flag, and
\* cleared the flag if it was pairing
ExactlyOneStarted(a) ==
    /\ Count(calls', "start", a) + Count(calls', "start_pairing", a) = 1
    /\ Count(calls', "start_pairing", a) = 1 <=> FlagAtHandling(a)
    /\ ~tuhi'[a].pairing

\* C9 as stated: every 'connected' signal the orchestrator handles starts
\* exactly one of pairing (flag set; the flag is cleared) and retrieval
\* (flag not set), never both and never neither.
C9_ExactlyOneAction ==
    [][\A a \in DOMAIN tuhi' : Handled(a) => ExactlyOneStarted(a)]_vars

\* C9 amended: a 'connected' signal handled while the driver is not working
\* starts exactly one of the two, chosen by the flag; one handled while the
\* driver is working starts neither and leaves the flag as it is.
C9_ExactlyOneUnlessWorking ==
    [][\A a \in DOMAIN tuhi' :
          Handled(a) =>
             IF ~PreWorking(a)
             THEN ExactlyOneStarted(a)
             ELSE /\ Count(calls', "start", a) + Count(calls', "start_pairing", a) = 0
                  /\ tuhi'[a].pairing = FlagAtHandling(a)
                  /\ tuhi'[a].running = tuhi[a].running]_vars

\* pairing was requested on an idle, connected session: pairing was started
\* and the flag is clear again
C9_Witness ==
    /\ event.name = "pairing-requested"
    /\ Count(calls, "_on_bluez_device_connected", event.obj) = 1
    /\ Count(calls, "start_pairing", event.obj) = 1
    /\ ~tuhi[event.obj].pairing

\* C10: start() and start_pairing() are only invoked while the driver is not
\* working, so no step leaves more than one sequence outstanding; a connect
\* request made while the session is not Disconnected and a sequence is
\* outstanding starts nothing.
C10_OneSequence ==
    [][\A a \in DOMAIN tuhi' :
          /\ Count(calls', "start", a) + Count(calls', "start_pairing", a) > 0
                => ~PreWorking(a)
          /\ tuhi'[a].running <= 1
          /\ (/\ PreWorking(a)
              /\ SessionState(tuhi[a].bluez) # "Disconnected"
              /\ event'.name \in {"device-updated", "pairing-requested"})
             => /\ Count(calls', "start", a) + Count(calls', "start_pairing", a) = 0
                /\ tuhi'[a].running = tuhi[a].running]_vars

\* a connect request reached the 'connected' handler of a connected session
\* whose driver is working: nothing was started
C10_Witness ==
    /\ event.name \in {"device-updated", "pairing-requested"}
    /\ \E a \in DOMAIN tuhi :
          /\ Count(calls, "_on_bluez_device_connected", a) = 1
          /\ Count(calls, "start", a) + Count(calls, "start_pairing", a) = 0
          /\ tuhi[a].running = 1
          /\ proxy[tuhi[a].bluez].Connected

\* the BlueZDevices the step ran Tuhi._on_bluez_device_updated for
UpdatedDevices ==
    IF event'.name = "device-updated" THEN {event'.dev}
    ELSE IF event'.name \in {"connect_to_bluez", "object-added"}
         THEN DOMAIN devices' \ DOMAIN devices
         ELSE {}

\* the step called connect_device for the session of address a: it either
\* issued a Connect or re-emitted 'connected' to the session's handler
ConnectRequested(a) ==
    Count(calls', "Connect", a) + Count(calls', "_on_bluez_device_connected", a) > 0

\* C11: whenever the orchestrator evaluates TuhiDevice.pairingmode (on a
\* device-updated event of a device of the vendor), the value stored on the
\* DBus device object is TRUE exactly when the manufacturer data of the
\* session's device is 4 bytes long, and the value returned is the same one:
\* retrieval is requested exactly when it is FALSE.
C11_PairingModeDetection ==
    [][\A j \in UpdatedDevices :
          devices'[j].vendor_id = WACOM_COMPANY_ID =>
             LET a == devices'[j].address
                 len == proxy'[tuhi'[a].bluez].mdlen
             IN /\ tuhi'[a].dbus_pairingmode = (len = 4)
                /\ ConnectRequested(a) = (len # 4)]_vars

\* a known device of the vendor was announced with 4-byte data: TRUE was
\* stored and no connection was requested
C11_Witness ==
    /\ event.name = "device-updated"
    /\ proxy[event.dev].mdlen = 4
    /\ calls = << >>
    /\ \E a \in DOMAIN tuhi : tuhi[a].bluez = event.dev /\ tuhi[a].dbus_pairingmode

\* C12: server.create_device is called for an address exactly in the step
\* that constructs the address's session (at most once in a step, even when
\* the step delivers several devices of the address), and a session that
\* exists stays the one registered for its address, bound to the same
\* BlueZDevice: every later get_tuhi_device of the address returns it.
C12_GetOrCreate ==
    [][\A a \in Addresses :
          /\ Count(calls', "create_device", a) <= 1
          /\ Count(calls', "create_device", a) = 1
                <=> (a \notin DOMAIN tuhi /\ a \in DOMAIN tuhi')
          /\ a \in DOMAIN tuhi
                => a \in DOMAIN tuhi' /\ tuhi'[a].bluez = tuhi[a].bluez]_vars

\* a second BlueZDevice of a known address was announced: the session of the
\* address, bound to the first one, was used and nothing was created
C12_Witness ==
    /\ event.name = "device-updated"
    /\ LET a == devices[event.dev].address
       IN /\ a \in DOMAIN tuhi
          /\ tuhi[a].bluez # event.dev
          /\ Count(calls, "create_device", a) = 0
          /\ Count(calls, "Connect", a) = 1

\* C15: (1) the step that handles the driver's 'done' of a session calls
\* disconnect_device on the session's BlueZDevice, once, and nothing else;
\* disconnect_device is called by no other step. (2) add_drawing is called
\* inside the handler of the driver's 'drawing' signal, once, exactly when
\* the reconstruction completes, hence while the driver is still working:
\* before the 'done' of that sequence and its disconnect request.
C15_DoneDisconnects ==
    [][\A a \in DOMAIN tuhi' :
          LET i == tuhi'[a].bluez
          IN /\ event' = Event("done", i, a, FALSE)
                  => /\ calls' = <<Call("disconnect_device", i, a)>>
                     /\ PreWorking(a) /\ tuhi'[a].running = tuhi[a].running - 1
             /\ Count(calls', "disconnect_device", a) > 0
                  => event' = Event("done", i, a, FALSE)
             /\ event' = Event("drawing", i, a, FALSE)
                  => /\ PreWorking(a) /\ working(tuhi'[a])
                     /\ calls' = IF dstate' = "published"
                                 THEN <<Call("add_drawing", i, a)>> ELSE << >>
                     /\ dstate' = "published" => published' = Json(strokes')
             /\ Count(calls', "add_drawing", a) > 0
                  => event' = Event("drawing", i, a, FALSE)]_vars

\* a session in normal mode whose drawing was handed to add_drawing has
\* finished: the disconnect was requested
C15_Witness ==
    /\ event.name = "done"
    /\ dstate = "published"
    /\ calls = <<Call("disconnect_device", event.dev, event.obj)>>
    /\ ~working(tuhi[event.obj])
    /\ ~tuhi[event.obj].dbus_pairingmode

\* the step called connect_device on the BlueZDevice of the session of
\* address a, once: a pairing request, or a device-updated of a device of
\* the address while the session's device is not in pairing mode
ConnectDeviceCalled(a) ==
    /\ a \in DOMAIN tuhi
    /\ \/ event' = Event("pairing-requested", tuhi[a].bluez, a, FALSE)
       \/ /\ event'.name = "device-updated"
          /\ devices[event'.dev].address = a
          /\ proxy'[tuhi[a].bluez].mdlen # 4

\* how often the last step emitted signal sig
Emissions(seq, sig) == Cardinality({k \in DOMAIN seq : seq[k] = sig})

\* C16: connect_device on a device whose proxy reports Connected issues no
\* Connect and emits 'connected' once inside the same step; on a device
\* whose proxy reports not Connected it issues one Connect and emits
\* nothing. No step emits 'connected' for a device whose proxy does not
\* report it connected; the reply to a Connect emits nothing.
C16_ConnectDevice ==
    [][/\ \A a \in DOMAIN tuhi :
            LET i == tuhi[a].bluez
            IN ConnectDeviceCalled(a) =>
                 IF proxy[i].Connected
                 THEN /\ Count(calls', "Connect", a) = 0
                      /\ proxy'[i].pending = proxy[i].pending
                      /\ emitted' = <<Signal("connected", i)>>
                      /\ Count(calls', "_on_bluez_device_connected", a) = 1
                 ELSE /\ Count(calls', "Connect", a) = 1
                      /\ proxy'[i].pending = proxy[i].pending + 1
                      /\ emitted' = << >>
       /\ \A i \in DOMAIN devices' :
            Emissions(emitted', Signal("connected", i)) > 0 => proxy'[i].Connected
       /\ event'.name = "connect-result" => emitted' = << >>]_vars

\* pairing was requested for a session whose device is already connected
\* and whose driver is working: no Connect, 'connected' emitted and handled
\* in the step
C16_Witness ==
    /\ event.name = "pairing-requested"
    /\ emitted = <<Signal("connected", event.dev)>>
    /\ calls = <<Call("_on_bluez_device_connected", event.dev, event.obj)>>
    /\ proxy[event.dev].Connected
    /\ proxy[event.dev].pending = 0

\* the BlueZDevice a device-updated event of the step is about: the device
\* announced again, or the device an object-added has just constructed
UpdatedDevice ==
    IF event'.name = "device-updated" THEN {event'.dev}
    ELSE IF event'.name = "object-added" THEN DOMAIN devices' \ DOMAIN devices
         ELSE {}

\* C19: (1) a device-updated event for a device of the vendor requests a
\* connection exactly when that device is not in pairing mode (its payload
\* is not 4 bytes long); (2) a Connect is issued on a device that advertises
\* pairing mode only by a pairing-requested event; (3) a device of another
\* vendor gets no session, and nothing is ever called for it.
C19_ConnectUnlessPairingMode ==
    [][/\ \A j \in UpdatedDevice :
            devices'[j].vendor_id = WACOM_COMPANY_ID
               => (ConnectRequested(devices'[j].address) <=> proxy'[j].mdlen # 4)
       /\ \A i \in DOMAIN devices' :
            /\ (CallsOn(calls', "Connect", i) > 0 /\ proxy'[i].mdlen = 4)
                  => event'.name = "pairing-requested"
            /\ devices'[i].vendor_id # WACOM_COMPANY_ID
                  => /\ \A a \in DOMAIN tuhi' : tuhi'[a].bluez # i
                     /\ devices'[i].address \notin DOMAIN tuhi'
                     /\ \A k \in DOMAIN calls' : calls'[k].dev # i]_vars

\* the pairing flag of address a before the step (a session that does not
\* exist yet has none)
FlagBefore(a) == a \in DOMAIN tuhi /\ tuhi[a].pairing

\* the step is the handling of a pairing request for address a
PairingRequestOf(a) == event' = Event("pairing-requested", tuhi'[a].bluez, a, FALSE)

\* the step invoked start_pairing for address a
StartPairingInvoked(a) == Count(calls', "start_pairing", a) > 0

\* C21: the pairing flag of a session goes up only in the step of a pairing
\* request and down only in a step that invokes start_pairing; after every
\* step it is TRUE exactly when a pairing request has arrived and no
\* start_pairing has been invoked since (a request and the start_pairing it
\* leads to in the same step leave it FALSE). It is left as it was by a
\* failed Connect, by a disconnect and by a 'connected' handled while the
\* driver is working; and a 'connected' handled while the driver is idle and
\* the flag is set starts pairing, not retrieval, whatever requested the
\* connection.
C21_PairingFlagLifecycle ==
    [][\A a \in DOMAIN tuhi' :
          /\ tuhi'[a].pairing
                = IF StartPairingInvoked(a) THEN FALSE
                  ELSE PairingRequestOf(a) \/ FlagBefore(a)
          /\ (~FlagBefore(a) /\ tuhi'[a].pairing) => PairingRequestOf(a)
          /\ (FlagBefore(a) /\ ~tuhi'[a].pairing) => StartPairingInvoked(a)
          /\ (\/ event'.name = "connect-result" /\ ~event'.flag
              \/ event'.name = "properties-changed" /\ ~event'.flag
              \/ Handled(a) /\ PreWorking(a) /\ ~PairingRequestOf(a))
                => tuhi'[a].pairing = FlagBefore(a)
          /\ (Handled(a) /\ PreWorking(a)) => ~StartPairingInvoked(a)
          /\ (Handled(a) /\ ~PreWorking(a) /\ FlagAtHandling(a))
                => /\ Count(calls', "start_pairing", a) = 1
                   /\ Count(calls', "start", a) = 0]_vars

\* a connection requested for normal retrieval (device-updated, not pairing
\* mode) reached the 'connected' handler with the flag still set from an
\* earlier pairing request: pairing was started and the flag is clear
C21_Witness ==
    /\ event.name = "device-updated"
    /\ \E a \in DOMAIN tuhi :
          /\ tuhi[a].bluez = event.dev
          /\ ~tuhi[a].dbus_pairingmode
          /\ calls = <<Call("_on_bluez_device_connected", event.dev, a),
                       Call("start_pairing", event.dev, a)>>
          /\ ~tuhi[a].pairing

\* --------------------------------------------------------- router claims

\* the calls of the last batch that delivered property name n
Deliveries(inv, n) == {k \in DOMAIN inv : inv[k].name = n}

\* C13: (1) connect_property(n, cb) makes cb the one callback of n and leaves
\* the callbacks of the other names alone, so a name's callback is always
\* the one registered last; (2) a batch of property changes calls, for every
\* changed name that has a callback, that callback once with the name and
\* its new value and no other callback; a changed name without a callback
\* and an unchanged name cause no call, nothing is raised, and the
\* registrations stay as they were.
C13_NotificationRouter ==
    [][/\ event'.name = "connect_property" =>
            LET n == event'.obj[1]
                cb == event'.obj[2]
            IN /\ n \in DOMAIN callbacks' /\ callbacks'[n] = cb
               /\ \A m \in PropNames \ {n} :
                     /\ m \in DOMAIN callbacks' <=> m \in DOMAIN callbacks
                     /\ m \in DOMAIN callbacks => callbacks'[m] = callbacks[m]
               /\ invoked' = << >>
       /\ event'.name = "chrc-properties-changed" =>
            /\ \A n \in PropNames :
                  Cardinality(Deliveries(invoked', n))
                     = IF n \in DOMAIN batch' /\ n \in DOMAIN callbacks THEN 1 ELSE 0
            /\ \A k \in DOMAIN invoked' :
                  /\ invoked'[k].callback = callbacks[invoked'[k].name]
                  /\ invoked'[k].value = batch'[invoked'[k].name]
            /\ ~raised'
            /\ callbacks' = callbacks]_vars

\* two names with different callbacks and a name without a callback all
\* changed in one batch: two calls were made
C13_Witness ==
    /\ event.name = "chrc-properties-changed"
    /\ DOMAIN batch = PropNames
    /\ DOMAIN callbacks = {"Value", "Notifying"}
    /\ Len(invoked) = 2
    /\ invoked[1].callback # invoked[2].callback

\* -------------------------------------------------------- drawing claims

\* the stroke of the example and its expected decoding
ExampleRaw ==
    <<<<ABSOLUTE, Some(10), Some(20), Some(5)>>,
      <<RELATIVE, Some(3), Some(-2), Some(0)>>,
      <<RELATIVE, None, Some(5), None>>>>
ExampleOut ==
    <<Point(<<Some(10), Some(20), Some(5)>>),
      Point(<<Some(13), Some(18), Some(5)>>),
      Point(<<Some(13), Some(23), Some(5)>>)>>

\* the last value channel c (2: x, 3: y, 4: pressure) had among the first k
\* decoded points of the current stroke; None when it had none
RECURSIVE LastKnown(_, _)
LastKnown(c, k) ==
    IF k = 0 THEN None
    ELSE LET v == IF c = 4 THEN stroke[k].pressure ELSE stroke[k].position[c - 1]
         IN IF raw[Len(raw)][k][c] # None THEN v ELSE LastKnown(c, k - 1)

\* C5: the example stroke decodes to the expected points, and every decoded
\* point whose raw x (pressure) is absent carries the last known absolute x
\* (pressure) of the stroke.
C5_DeltaDecode ==
    dstate = "stroke" =>
        /\ raw[Len(raw)] = ExampleRaw => stroke = ExampleOut
        /\ \A k \in DOMAIN stroke :
              /\ raw[Len(raw)][k][2] = None
                    => stroke[k].position[1] = LastKnown(2, k - 1)
              /\ raw[Len(raw)][k][4] = None
                    => stroke[k].pressure = LastKnown(4, k - 1)

\* C6: decoding a point leaves the running last value of every channel the
\* point does not report as it was.
C6_AbsentKeepsLast ==
    [][(dstate = "stroke" /\ dstate' = "stroke" /\ Len(stroke') = Len(stroke) + 1)
          => LET pt == raw'[Len(raw')][Len(stroke')]
             IN \A c \in 1 .. 3 : pt[c + 1] = None => last'[c] = last[c]]_vars

\* C7: no point of the published record holds a null: 'position' is there
\* only with both coordinates, 'pressure' only with a value.
C7_NoNulls ==
    dstate = "published" =>
        \A s \in DOMAIN published : \A k \in DOMAIN published[s].points :
            LET d == published[s].points[k]
            IN /\ "position" \in DOMAIN d
                    => d.position[1] # None /\ d.position[2] # None
               /\ "pressure" \in DOMAIN d => d.pressure # None

\* channel c (2: x, 3: y, 4: pressure) of a decoded point
Channel(point, c) == IF c = 4 THEN point.pressure ELSE point.position[c - 1]

\* C14: the drawing handed to add_drawing has as many strokes as the input,
\* stroke s has as many points as raw stroke s, and point k of stroke s is
\* the decoding of raw point k of raw stroke s: a reported absolute value is
\* in the point as it is, a reported relative value is in it added to the
\* value of point k - 1 of the same stroke.
C14_StrokeOrdering ==
    dstate = "published" =>
        /\ Len(strokes) = Len(raw)
        /\ Len(published) = Len(raw)
        /\ \A s \in DOMAIN raw :
              /\ Len(strokes[s]) = Len(raw[s])
              /\ Len(published[s].points) = Len(raw[s])
              /\ \A k \in DOMAIN raw[s] : \A c \in 2 .. 4 :
                    LET v == raw[s][k][c]
                    IN v # None =>
                         IF raw[s][k][1] = ABSOLUTE
                         THEN Channel(strokes[s][k], c) = v
                         ELSE /\ k > 1
                              /\ Channel(strokes[s][k - 1], c) # None
                              /\ Channel(strokes[s][k], c)
                                    = Some(v[1] + Channel(strokes[s][k - 1], c)[1])

\* a drawing of two different strokes, the first of two different points,
\* was published
C14_Witness ==
    /\ dstate = "published"
    /\ Len(raw) = 2
    /\ Len(raw[1]) = 2 /\ Len(raw[2]) = 1
    /\ strokes[1][1] # strokes[1][2]
    /\ raw[1][2][1] = RELATIVE /\ raw[1][2][2] # None
    /\ strokes[2][1] # strokes[1][1]

\* raw stroke s decoded on its own, from unknown last values
Alone(s) == DecodeStroke(raw[s], 1, <<None, None, None>>, << >>)

\* C18: a stroke starts with all three last values unknown, and the points
\* decoded for a stroke are those its own raw points give when decoded
\* alone from unknown last values, whatever the earlier strokes of the
\* drawing held; a relative value fails in the drawing exactly when it fails
\* in the stroke alone.
C18_LastValuesReset ==
    /\ (dstate = "stroke" /\ stroke = << >>) => last = <<None, None, None>>
    /\ \A s \in DOMAIN strokes : strokes[s] = Alone(s).points /\ ~Alone(s).error
    /\ dstate = "stroke" =>
          stroke = Alone(Len(raw)).points /\ ~Alone(Len(raw)).error
    /\ dstate = "error" =>
          stroke = Alone(Len(raw)).points /\ Alone(Len(raw)).error

\* the second stroke starts with a relative point although the first stroke
\* ended with every channel known: the decoding failed
C18_Witness ==
    /\ dstate = "error"
    /\ Len(raw) = 2
    /\ Len(raw[2]) = 1
    /\ Len(strokes) = 1 /\ Len(strokes[1]) > 0
    /\ LET pt == strokes[1][Len(strokes[1])]
       IN pt.position[1] # None /\ pt.position[2] # None /\ pt.pressure # None

\* channel c (2: x, 3: y, 4: pressure) has no running last value: no point
\* of the stroke has been decoded yet, or the point decoded last did not
\* report the channel
NoLastValue(c) ==
    \/ stroke = << >>
    \/ raw[Len(raw)][Len(stroke)][c] = None

\* C20: reading a point of a stroke ends the reconstruction in an error
\* exactly when the point is relative and reports a value on a channel that
\* has no running last value; the error leaves the drawing unpublished, with
\* the strokes completed so far, and nothing runs after it: add_drawing is
\* never reached.
C20_RelativeWithoutLastAborts ==
    [][/\ (dstate = "stroke" /\ raw' # raw) =>
            LET pt == raw'[Len(raw')][Len(raw'[Len(raw')])]
            IN /\ dstate' = "error"
                     <=> /\ pt[1] = RELATIVE
                         /\ \E c \in 2 .. 4 : pt[c] # None /\ NoLastValue(c)
               /\ dstate' = "error"
                     => published' = << >> /\ strokes' = strokes /\ stroke' = stroke
       /\ dstate = "error" => dstate' = "error" /\ published' = << >>
       /\ dstate' = "published" => dstate = "drawing"]_vars

\* after one complete stroke, a relative x followed a point without x in the
\* second stroke: the reconstruction failed and nothing was published
C20_Witness ==
    /\ dstate = "error"
    /\ published = << >>
    /\ Len(strokes) = 1 /\ Len(strokes[1]) = 1
    /\ Len(raw) = 2 /\ Len(raw[2]) = 2
    /\ raw[2][1][2] = None
    /\ raw[2][2][1] = RELATIVE /\ raw[2][2][2] # None
    /\ raw[2][2][3] = None /\ raw[2][2][4] = None

====
